---- MODULE Spec2Model ----
(***************************************************************************)
(* Story sessions of fam-bam: the session documents of the "sessions"      *)
(* collection and the operations of lib/story-session on them, run by      *)
(* several clients against one document store.                             *)
(*                                                                         *)
(* A string that the code trims (a player name, a word) is a sequence of   *)
(* one-character strings, so that trim() is computed.  A document's data   *)
(* is a function from the names of the fields it has to their values, so   *)
(* that object spread, merge-writes and `??` defaults are computed.        *)
(***************************************************************************)
EXTENDS Integers, Sequences, FiniteSets, TLC

VARIABLES
  store,   \* session id -> [exists, data]: the documents of the collection
  clock,   \* the server's timestamp source: the number of writes so far
  call,    \* client -> the asynchronous call it has in flight, or Idle
  last,    \* history: the last operation that completed on the store
  joined,  \* history: session id -> ids whose latest committed add-player was valid
  run,     \* history: session id -> the add-words committed since another write
  stale,   \* history: session id -> a reset-story wrote last
  sub,     \* client -> its story screen's effect and its session listener
  list     \* the My Stories screen: its user, its sessions, its refreshes in flight

vars == <<store, clock, call, last, joined, run, stale, sub, list>>

----------------------------------------------------------------------------
(* Bounds *)

\* Writes the store accepts in one behaviour.
MaxClock == 3

\* The longest players list given to normalizePlayers on its own
MaxPlayers == 3

----------------------------------------------------------------------------
(* Values *)

Clients == {"c1", "c2"}
Sessions == {"s1", "s2"}

\* The sessions the clients of each specification address.
MainSessions == {"s1"}

SP == " "
Amy == <<"A">>
AmyRaw == <<SP, "A", SP>>
Bob == <<"B">>
Blank == <<SP>>
Cat == <<"c">>
DogRaw == <<SP, "d">>

\* The users that sign in
UserIds == {"u1", "u2"}

PlayerInputs ==
  { [id |-> "u1", name |-> AmyRaw],
    [id |-> "u1", name |-> Bob],
    [id |-> "u2", name |-> Bob],
    [id |-> "u2", name |-> Blank] }

WordInputs == {Cat, DogRaw}

----------------------------------------------------------------------------
(* JavaScript primitives the module relies on *)

RECURSIVE TrimStart(_)
TrimStart(s) ==
  IF s # <<>> /\ Head(s) = SP THEN TrimStart(Tail(s)) ELSE s

RECURSIVE TrimEnd(_)
TrimEnd(s) ==
  IF s # <<>> /\ s[Len(s)] = SP THEN TrimEnd(SubSeq(s, 1, Len(s) - 1)) ELSE s

\* String.prototype.trim
Trim(s) == TrimEnd(TrimStart(s))

\* The % operator: the remainder takes the sign of the dividend.
JsRem(a, n) == IF a >= 0 THEN a % n ELSE 0 - ((0 - a) % n)

\* Math.min
Min(a, b) == IF a <= b THEN a ELSE b

\* { ...a, ...b } and a merge-write of b over a: b's fields win, a's others stay.
Merge(a, b) ==
  [f \in (DOMAIN a) \cup (DOMAIN b) |-> IF f \in DOMAIN b THEN b[f] ELSE a[f]]

\* d.f ?? dflt
FieldOr(d, f, dflt) == IF f \in DOMAIN d THEN d[f] ELSE dflt

\* Array.from(new Set(s)): the first occurrence of each element, in order.
RECURSIVE Unique(_)
Unique(s) ==
  IF s = <<>> THEN <<>>
  ELSE LET rest == Unique(SubSeq(s, 1, Len(s) - 1))
           x == s[Len(s)]
       IN IF \E i \in 1..Len(rest) : rest[i] = x THEN rest ELSE Append(rest, x)

\* players.findIndex((p) => p.id === id): 0-based, -1 when nothing matches.
FindPlayerIndex(players, id) ==
  IF \E i \in 1..Len(players) : players[i].id = id
  THEN (CHOOSE i \in 1..Len(players) :
          /\ players[i].id = id
          /\ \A j \in 1..(i - 1) : players[j].id # id) - 1
  ELSE 0 - 1

Range(s) == {s[i] : i \in 1..Len(s)}

----------------------------------------------------------------------------
(* lib/story-session: pure helpers *)

emptySession == [players |-> <<>>, storyWords |-> <<>>, activePlayerIndex |-> 0]

\* The filter of normalizePlayers: Boolean(player.id) && Boolean(player.name?.trim())
\* The filter of normalizePlayers as it would be without the name test
PlayerValidIdOnly(p) == p.id # ""

\* The filter of normalizePlayers as it would be without the trim
PlayerValidUntrimmed(p) == p.id # "" /\ p.name # <<>>

PlayerValid(p) == p.id # "" /\ Trim(p.name) # <<>>

\* The clamp of normalizePlayers: Math.min against the last index, 0 for no players.
\* The clamp of normalizePlayers as it would be if it always gave the first player
ClampIndexToFirst(activeIndex, n) == 0

ClampIndex(activeIndex, n) == IF n # 0 THEN Min(activeIndex, n - 1) ELSE 0

normalizePlayers(players, activeIndex) ==
  LET kept == SelectSeq(players, PlayerValid)
      cleaned == [i \in 1..Len(kept) |-> [kept[i] EXCEPT !.name = Trim(@)]]
  IN [players |-> cleaned, activeIndex |-> ClampIndex(activeIndex, Len(cleaned))]

IdsOf(players) == [i \in 1..Len(players) |-> players[i].id]

NonEmptyId(id) == id # ""

\* mergePlayerIds as it would be without `new Set`
mergePlayerIdsKeepingDuplicates(players) == SelectSeq(IdsOf(players), NonEmptyId)

mergePlayerIds(players) == Unique(SelectSeq(IdsOf(players), NonEmptyId))

\* normalizePlayers(data.players ?? [], data.activePlayerIndex ?? 0)
NormOf(data) ==
  normalizePlayers(FieldOr(data, "players", <<>>), FieldOr(data, "activePlayerIndex", 0))

----------------------------------------------------------------------------
(* The document store *)

Absent == [exists |-> FALSE]

\* snapshot.data() ?? emptySession inside a transaction
SnapData(snap) == IF snap.exists THEN snap.data ELSE emptySession

\* setDoc(ref, fields): the document becomes exactly `fields`.
SetDoc(doc, fields) == [exists |-> TRUE, data |-> fields]

\* The merge-write as it would be if it were an update, which creates nothing
SetDocUpdateOnly(doc, fields) ==
  IF doc.exists THEN [exists |-> TRUE, data |-> Merge(doc.data, fields)] ELSE doc

\* setDoc(ref, fields, { merge: true }): fields not named keep their value;
\* a document that does not exist is created with `fields` alone.
SetDocMerge(doc, fields) ==
  [exists |-> TRUE, data |-> IF doc.exists THEN Merge(doc.data, fields) ELSE fields]

\* serverTimestamp() as resolved by the write that is about to happen
serverTimestamp == clock + 1

----------------------------------------------------------------------------
(* lib/story-session: what each operation writes *)

\* ensureSessionExists: the document written when none was found
EnsureDoc(seed, ts) ==
  LET defaults == Merge(emptySession, seed)
  IN Merge(defaults, [playerIds |-> mergePlayerIds(defaults.players), updatedAt |-> ts])

Seeds ==
  { [players |-> <<>>, storyWords |-> <<>>, activePlayerIndex |-> 0],
    [players |-> << [id |-> "u1", name |-> AmyRaw],
                    [id |-> "", name |-> Bob],
                    [id |-> "u2", name |-> Bob] >>,
     activePlayerIndex |-> 0 - 2],
    [players |-> << [id |-> "u1", name |-> Amy],
                    [id |-> "u2", name |-> Bob],
                    [id |-> "u1", name |-> Bob] >>,
     storyWords |-> <<Cat>>,
     activePlayerIndex |-> 5] }

\* addPlayerToSession as it would be if it dropped the player it is given
NextPlayersKept(players, player) == players

\* addPlayerToSession as it would be if it never looked for the id
NextPlayersAppending(players, player) == Append(players, player)

\* The players array of addPlayerToSession before normalization
NextPlayers(players, player) ==
  LET existingIndex == FindPlayerIndex(players, player.id)
  IN IF existingIndex >= 0
     THEN [players EXCEPT ![existingIndex + 1] = player]
     ELSE Append(players, player)

\* addPlayerToSession: the object handed to transaction.set
AddPlayerFields(data, player, ts) ==
  LET norm == normalizePlayers(NextPlayers(FieldOr(data, "players", <<>>), player),
                               FieldOr(data, "activePlayerIndex", 0))
  IN Merge(data, [players |-> norm.players,
                  playerIds |-> mergePlayerIds(norm.players),
                  activePlayerIndex |-> norm.activeIndex,
                  updatedAt |-> ts])

\* The turn rotation of addWordToSession
NextActiveIndex(activeIndex, n) == IF n # 0 THEN JsRem(activeIndex + 1, n) ELSE 0

\* addWordToSession as it would be if it left a blank word out
AddWordFieldsSkippingBlank(data, word, ts) ==
  LET norm == NormOf(data)
      words == FieldOr(data, "storyWords", <<>>)
  IN Merge(data, [storyWords |-> IF Trim(word) = <<>> THEN words
                                 ELSE Append(words, Trim(word)),
                  players |-> norm.players,
                  playerIds |-> mergePlayerIds(norm.players),
                  activePlayerIndex |-> NextActiveIndex(norm.activeIndex, Len(norm.players)),
                  updatedAt |-> ts])

\* addWordToSession: the object handed to transaction.set
AddWordFields(data, word, ts) ==
  LET norm == NormOf(data)
  IN Merge(data, [storyWords |-> Append(FieldOr(data, "storyWords", <<>>), Trim(word)),
                  players |-> norm.players,
                  playerIds |-> mergePlayerIds(norm.players),
                  activePlayerIndex |-> NextActiveIndex(norm.activeIndex, Len(norm.players)),
                  updatedAt |-> ts])

\* resetSessionStory as it would be if it left the turn where it is
ResetFieldsKeepingIndex(ts) ==
  [storyWords |-> <<>>,
   playerIds |-> mergePlayerIds(<<>>),
   updatedAt |-> ts]

\* resetSessionStory as it would be if it also wrote an empty players list
ResetFieldsClearingPlayers(ts) ==
  [players |-> <<>>,
   storyWords |-> <<>>,
   activePlayerIndex |-> 0,
   playerIds |-> mergePlayerIds(<<>>),
   updatedAt |-> ts]

\* resetSessionStory as it would be if it left playerIds alone
ResetFieldsKeepingIds(ts) ==
  [storyWords |-> <<>>, activePlayerIndex |-> 0, updatedAt |-> ts]

\* resetSessionStory: the fields of its merge-write
ResetFields(ts) ==
  [storyWords |-> <<>>,
   activePlayerIndex |-> 0,
   playerIds |-> mergePlayerIds(<<>>),
   updatedAt |-> ts]

\* The view handed to onChange by subscribeToSession
SessionView(data) ==
  LET norm == NormOf(data)
  IN [players |-> norm.players,
      storyWords |-> FieldOr(data, "storyWords", <<>>),
      activePlayerIndex |-> norm.activeIndex,
      playerIds |-> mergePlayerIds(norm.players)]

\* formatSessionDoc (updatedAt is carried over when the document has one)
formatSessionDoc(sid, data) ==
  LET norm == NormOf(data)
  IN [id |-> sid,
      players |-> norm.players,
      storyWords |-> FieldOr(data, "storyWords", <<>>),
      activePlayerIndex |-> norm.activeIndex,
      updatedAt |-> FieldOr(data, "updatedAt", 0)]

\* where('playerIds', 'array-contains', userId)
IndexQuery(st, userId) ==
  {sid \in DOMAIN st :
     /\ st[sid].exists
     /\ "playerIds" \in DOMAIN st[sid].data
     /\ userId \in Range(st[sid].data.playerIds)}

\* The fallback scan of getSessionsForUser
FullScan(st, userId) ==
  {sid \in DOMAIN st :
     /\ st[sid].exists
     /\ \E p \in Range(formatSessionDoc(sid, st[sid].data).players) : p.id = userId}

\* getSessionsForUser as it would be without its fallback
SessionIdsIndexOnly(st, userId) == IndexQuery(st, userId)

\* getSessionsForUser: the ids of the sessions it returns
SessionIdsForUser(st, userId) ==
  IF IndexQuery(st, userId) # {} THEN IndexQuery(st, userId) ELSE FullScan(st, userId)

getSessionsForUser(st, userId) ==
  {formatSessionDoc(sid, st[sid].data) : sid \in SessionIdsForUser(st, userId)}

----------------------------------------------------------------------------
(* State machine *)

Idle == [op |-> "idle"]

NoRun == [base |-> Absent, added |-> <<>>]

\* No onChange call yet
NoView == [called |-> FALSE]

\* A client without a story screen and without a listener
Off == [phase |-> "off", sid |-> "none", isMounted |-> FALSE, listening |-> FALSE,
        inbox |-> <<>>, view |-> NoView,
        got |-> [op |-> "none", called |-> FALSE, snap |-> Absent],
        late |-> FALSE]

\* Nobody signed in
NoUser == "none"

\* The My Stories screen as it mounts: useState(null), useState([]),
\* useState(false)
NoList == [user |-> NoUser,
           sessions |-> [for |-> NoUser, items |-> {}],
           loading |-> FALSE,
           pending |-> {}]

\* onSnapshot: the store hands the document of a committed write to every
\* listener registered on the session.
Notified(s, sid, doc) ==
  [c \in Clients |->
     IF s[c].listening /\ s[c].sid = sid
     THEN [s[c] EXCEPT !.inbox = Append(@, doc)]
     ELSE s[c]]

Init ==
  /\ store = [sid \in Sessions |-> Absent]
  /\ clock = 0
  /\ call = [c \in Clients |-> Idle]
  /\ last = [op |-> "none"]
  /\ joined = [sid \in Sessions |-> {}]
  /\ run = [sid \in Sessions |-> NoRun]
  /\ stale = [sid \in Sessions |-> FALSE]
  /\ sub = [c \in Clients |-> Off]
  /\ list = NoList

\* ensureSessionExists as it would be without its early return
EnsureFoundNever(snapshot) == FALSE

\* if (snapshot.exists()) return;
EnsureFound(snapshot) == snapshot.exists

\* ensureSessionExists run without interruption on `doc`
EnsureRun(doc, seed, ts) ==
  IF EnsureFound(doc) THEN doc ELSE SetDoc(doc, EnsureDoc(seed, ts))

\* ensureSessionExists up to its await getDoc: returns when the document exists.
EnsureRead(c, sid, seed) ==
  /\ call[c] = Idle
  /\ IF EnsureFound(store[sid])
     THEN /\ last' = [op |-> "ensureReturn", sid |-> sid, pre |-> store[sid]]
          /\ UNCHANGED call
     ELSE /\ clock < MaxClock
          /\ call' = [call EXCEPT ![c] = [op |-> "ensure", sid |-> sid, seed |-> seed]]
          /\ UNCHANGED last
  /\ UNCHANGED <<store, clock, joined, run, stale>>

\* ensureSessionExists called on its own
EnsureBegin(c, sid, seed) == EnsureRead(c, sid, seed) /\ UNCHANGED <<sub, list>>

\* ensureSessionExists after the await: the unconditional setDoc.
EnsureWrite(c) ==
  /\ call[c].op = "ensure"
  /\ clock < MaxClock
  /\ LET sid == call[c].sid
     IN /\ store' = [store EXCEPT
                       ![sid] = SetDoc(@, EnsureDoc(call[c].seed, serverTimestamp))]
        /\ last' = [op |-> "ensureWrite", sid |-> sid, pre |-> store[sid],
                    added |-> run[sid].added]
        /\ run' = [run EXCEPT ![sid] = [base |-> store'[sid], added |-> <<>>]]
        /\ stale' = [stale EXCEPT ![sid] = FALSE]
        /\ sub' = Notified(sub, sid, store'[sid])
  /\ clock' = clock + 1
  /\ call' = [call EXCEPT ![c] = Idle]
  /\ UNCHANGED <<joined, list>>

\* addPlayerToSession: runTransaction starts and transaction.get reads.
AddPlayerBegin(c, sid, player) ==
  /\ call[c] = Idle
  /\ clock < MaxClock
  /\ call' = [call EXCEPT
                ![c] = [op |-> "addPlayer", sid |-> sid, arg |-> player,
                        snap |-> store[sid], retried |-> FALSE]]
  /\ UNCHANGED <<store, clock, last, joined, run, stale, sub, list>>

\* addWordToSession: runTransaction starts and transaction.get reads.
AddWordBegin(c, sid, word) ==
  /\ call[c] = Idle
  /\ clock < MaxClock
  /\ call' = [call EXCEPT
                ![c] = [op |-> "addWord", sid |-> sid, arg |-> word,
                        snap |-> store[sid], retried |-> FALSE]]
  /\ UNCHANGED <<store, clock, last, joined, run, stale, sub, list>>

InTxn(c) == call[c].op \in {"addPlayer", "addWord"}

\* The object the update function of the transaction hands to transaction.set
TxnFields(t, ts) ==
  IF t.op = "addPlayer"
  THEN AddPlayerFields(SnapData(t.snap), t.arg, ts)
  ELSE AddWordFields(SnapData(t.snap), t.arg, ts)

\* A store that commits without comparing the read with the stored document
TxnValidAlways(c) == TRUE

\* The store accepts a transaction whose read is still the stored document.
TxnValid(c) == call[c].snap = store[call[c].sid]

\* The transaction commits: transaction.set(ref, fields, { merge: true }).
TxnCommit(c) ==
  /\ InTxn(c)
  /\ TxnValid(c)
  /\ clock < MaxClock
  /\ LET sid == call[c].sid
     IN /\ store' = [store EXCEPT
                       ![sid] = SetDocMerge(@, TxnFields(call[c], serverTimestamp))]
        /\ last' = IF "by" \in DOMAIN call[c]
                   THEN [op |-> call[c].op, sid |-> sid, pre |-> store[sid],
                         arg |-> call[c].arg, retried |-> call[c].retried,
                         snap |-> call[c].snap, afterReset |-> stale[sid],
                         by |-> call[c].by]
                   ELSE [op |-> call[c].op, sid |-> sid, pre |-> store[sid],
                         arg |-> call[c].arg, retried |-> call[c].retried,
                         snap |-> call[c].snap, afterReset |-> stale[sid]]
        /\ joined' = IF call[c].op = "addPlayer"
                     THEN [joined EXCEPT
                             ![sid] = IF PlayerValid(call[c].arg)
                                      THEN @ \cup {call[c].arg.id}
                                      ELSE @ \ {call[c].arg.id}]
                     ELSE joined
        /\ run' = [run EXCEPT
                     ![sid] = IF call[c].op = "addWord"
                              THEN [@ EXCEPT !.added = Append(@, Trim(call[c].arg))]
                              ELSE [base |-> store'[sid], added |-> <<>>]]
        /\ stale' = [stale EXCEPT ![sid] = FALSE]
        /\ sub' = Notified(sub, sid, store'[sid])
  /\ clock' = clock + 1
  /\ call' = [call EXCEPT ![c] = Idle]
  /\ UNCHANGED list

\* The document changed since the read: the store rejects the commit and
\* runTransaction runs the update function again, which reads again.
TxnRetry(c) ==
  /\ InTxn(c)
  /\ ~TxnValid(c)
  /\ call' = [call EXCEPT ![c].snap = store[call[c].sid], ![c].retried = TRUE]
  /\ UNCHANGED <<store, clock, last, joined, run, stale, sub, list>>

\* resetSessionStory: one merge-write, no read.
ResetStory(c, sid) ==
  /\ clock < MaxClock
  /\ store' = [store EXCEPT ![sid] = SetDocMerge(@, ResetFields(serverTimestamp))]
  /\ last' = [op |-> "reset", sid |-> sid, pre |-> store[sid]]
  /\ run' = [run EXCEPT ![sid] = [base |-> store'[sid], added |-> <<>>]]
  /\ stale' = [stale EXCEPT ![sid] = TRUE]
  /\ sub' = Notified(sub, sid, store'[sid])
  /\ clock' = clock + 1
  /\ UNCHANGED <<call, joined, list>>

\* ensureSessionExists(sessionId, { players: [], storyWords: [], activePlayerIndex: 0 })
UiSeed == [players |-> <<>>, storyWords |-> <<>>, activePlayerIndex |-> 0]

\* The story screen mounts: its effect starts bootstrap, which runs
\* ensureSessionExists up to the await.
ScreenMount(c, sid) ==
  /\ sub[c].phase = "off"
  /\ EnsureRead(c, sid, UiSeed)
  /\ sub' = [sub EXCEPT ![c] = [Off EXCEPT !.phase = "ensure", !.sid = sid,
                                           !.isMounted = TRUE]]
  /\ UNCHANGED list

\* bootstrap as it would be without `if (!isMounted) return;`
ResumeSubscribesAlways(s) == TRUE

\* if (!isMounted) return;
ResumeSubscribes(s) == s.isMounted

\* onSnapshot(ref, ...): the listener is registered and the store sends it
\* the current document.
Listening(s, sid, doc) ==
  [s EXCEPT !.phase = "subscribed", !.sid = sid, !.listening = TRUE, !.inbox = <<doc>>]

\* bootstrap after `await ensureSessionExists`: subscribes unless unmounted.
ScreenResume(c) ==
  /\ sub[c].phase = "ensure"
  /\ call[c].op # "ensure"
  /\ sub' = [sub EXCEPT
               ![c] = IF ResumeSubscribes(@)
                      THEN Listening(@, @.sid, store[@.sid])
                      ELSE [@ EXCEPT !.phase = "skipped"]]
  /\ UNCHANGED <<store, clock, call, last, joined, run, stale, list>>

\* The effect's cleanup: isMounted = false; unsubscribe?.();
ScreenUnmount(c) ==
  /\ sub[c].phase \in {"ensure", "subscribed"}
  /\ sub[c].isMounted
  /\ sub' = [sub EXCEPT
               ![c] = IF @.phase = "subscribed"
                      THEN [@ EXCEPT !.isMounted = FALSE, !.phase = "cancelled",
                                     !.listening = FALSE, !.inbox = <<>>]
                      ELSE [@ EXCEPT !.isMounted = FALSE]]
  /\ UNCHANGED <<store, clock, call, last, joined, run, stale, list>>

\* subscribeToSession called on its own, whatever the document is
Subscribe(c, sid) ==
  /\ sub[c].phase = "off"
  /\ sub' = [sub EXCEPT ![c] = Listening([Off EXCEPT !.isMounted = TRUE], sid, store[sid])]
  /\ UNCHANGED <<store, clock, call, last, joined, run, stale, list>>

\* The snapshot callback as it would be without its early return
SnapshotExistsAlways(snapshot) == TRUE

\* if (!snapshot.exists()) return;
SnapshotExists(snapshot) == snapshot.exists

\* The listener's snapshot callback runs on the next snapshot the store sent.
Deliver(c) ==
  /\ sub[c].listening
  /\ sub[c].inbox # <<>>
  /\ LET snapshot == Head(sub[c].inbox)
         called == SnapshotExists(snapshot)
     IN sub' = [sub EXCEPT
                  ![c] = [@ EXCEPT
                            !.inbox = Tail(@),
                            !.got = [op |-> "delivery", called |-> called,
                                     snap |-> snapshot],
                            !.view = IF called
                                     THEN [called |-> TRUE,
                                           state |-> SessionView(SnapData(snapshot))]
                                     ELSE @,
                            !.late = IF called THEN @ \/ ~sub[c].isMounted ELSE @]]
  /\ UNCHANGED <<store, clock, call, last, joined, run, stale, list>>

\* The user signed in on each client
UserOf(c) == IF c = "c1" THEN "u1" ELSE "u2"

\* isSingleWord: the trimmed input is not empty and has no whitespace
IsSingleWord(input) ==
  /\ Trim(input) # <<>>
  /\ \A j \in 1..Len(Trim(input)) : Trim(input)[j] # SP

\* canSubmitWord, from the players and the turn index the screen holds
CanSubmitWord(view, user, input) ==
  /\ view.called
  /\ Len(view.state.players) > 0
  /\ IsSingleWord(input)
  /\ 0 <= view.state.activePlayerIndex
  /\ view.state.activePlayerIndex < Len(view.state.players)
  /\ view.state.players[view.state.activePlayerIndex + 1].id = user

\* handleAddWord: returns unless canSubmitWord, else calls addWordToSession
\* with the trimmed input.
ScreenAddWord(c, input) ==
  /\ call[c] = Idle
  /\ clock < MaxClock
  /\ sub[c].phase = "subscribed"
  /\ CanSubmitWord(sub[c].view, UserOf(c), input)
  /\ call' = [call EXCEPT
                ![c] = [op |-> "addWord", sid |-> sub[c].sid, arg |-> Trim(input),
                        snap |-> store[sub[c].sid], retried |-> FALSE,
                        by |-> UserOf(c)]]
  /\ UNCHANGED <<store, clock, last, joined, run, stale, sub, list>>

\* onAuthStateChanged sets the user, and the effect on [user] runs: without
\* a user it empties the list, with one it starts refreshSessions.
AuthChange(u) ==
  /\ u # list.user
  /\ list' = IF u = NoUser
             THEN [list EXCEPT !.user = u, !.sessions = [for |-> NoUser, items |-> {}]]
             ELSE [list EXCEPT !.user = u, !.loading = TRUE, !.pending = @ \cup {u}]
  /\ UNCHANGED <<store, clock, call, last, joined, run, stale, sub>>

\* The refresh button (disabled while loading): refreshSessions for the
\* user of this render
PressRefresh ==
  /\ list.user # NoUser
  /\ ~list.loading
  /\ list' = [list EXCEPT !.loading = TRUE, !.pending = @ \cup {list.user}]
  /\ UNCHANGED <<store, clock, call, last, joined, run, stale, sub>>

\* setSessions(results)
StoredSessions(l, u, results) == [for |-> u, items |-> results]

\* await getSessionsForUser(user.uid) resolves for a refresh started for u.
RefreshDone(u) ==
  /\ u \in list.pending
  /\ list' = [list EXCEPT
                !.sessions = StoredSessions(list, u, getSessionsForUser(store, u)),
                !.loading = FALSE,
                !.pending = @ \ {u}]
  /\ UNCHANGED <<store, clock, call, last, joined, run, stale, sub>>

\* Two clients on one session: every operation, every interleaving.
Next ==
  \E c \in Clients :
    \/ \E sid \in MainSessions, seed \in Seeds : EnsureBegin(c, sid, seed)
    \/ EnsureWrite(c)
    \/ \E sid \in MainSessions, player \in PlayerInputs : AddPlayerBegin(c, sid, player)
    \/ \E sid \in MainSessions, word \in WordInputs : AddWordBegin(c, sid, word)
    \/ TxnCommit(c)
    \/ TxnRetry(c)
    \/ \E sid \in MainSessions : ResetStory(c, sid)

Spec == Init /\ [][Next]_vars

\* A session that is absent or was created by ensureSessionExists from a seed
StartDocs == {Absent} \cup {SetDoc(Absent, EnsureDoc(seed, 0)) : seed \in Seeds}

InitTxn ==
  /\ \E d \in StartDocs :
       /\ store = [sid \in Sessions |-> IF sid \in MainSessions THEN d ELSE Absent]
       /\ run = [sid \in Sessions |->
                   IF sid \in MainSessions THEN [base |-> d, added |-> <<>>] ELSE NoRun]
  /\ clock = 0
  /\ call = [c \in Clients |-> Idle]
  /\ last = [op |-> "none"]
  /\ joined = [sid \in Sessions |-> {}]
  /\ stale = [sid \in Sessions |-> FALSE]
  /\ sub = [c \in Clients |-> Off]
  /\ list = NoList

\* Two clients on one session: the transactions and reset-story alone.
NextTxn ==
  \E c \in Clients :
    \/ \E sid \in MainSessions, player \in PlayerInputs : AddPlayerBegin(c, sid, player)
    \/ \E sid \in MainSessions, word \in WordInputs : AddWordBegin(c, sid, word)
    \/ TxnCommit(c)
    \/ TxnRetry(c)
    \/ \E sid \in MainSessions : ResetStory(c, sid)

SpecTxn == InitTxn /\ [][NextTxn]_vars

\* A session created by the story screen that two users then joined, and
\* the same session after its first word
JoinedDoc ==
  LET created == SetDoc(Absent, EnsureDoc(UiSeed, 0))
      one == SetDocMerge(created,
                         AddPlayerFields(created.data, [id |-> "u1", name |-> Amy], 0))
  IN SetDocMerge(one, AddPlayerFields(one.data, [id |-> "u2", name |-> Bob], 0))

ToldDoc == SetDocMerge(JoinedDoc, AddWordFields(JoinedDoc.data, Cat, 0))

\* The main session starts as one of `docs`, the other session is absent.
InitWith(docs) ==
  /\ \E d \in docs :
       /\ store = [sid \in Sessions |-> IF sid \in MainSessions THEN d ELSE Absent]
       /\ run = [sid \in Sessions |->
                   IF sid \in MainSessions THEN [base |-> d, added |-> <<>>] ELSE NoRun]
  /\ clock = 0
  /\ call = [c \in Clients |-> Idle]
  /\ last = [op |-> "none"]
  /\ joined = [sid \in Sessions |-> {}]
  /\ stale = [sid \in Sessions |-> FALSE]
  /\ sub = [c \in Clients |-> Off]
  /\ list = NoList

\* Two clients on a session with two players: add-word against reset-story.
RaceDocs == {JoinedDoc, ToldDoc}

NextRace ==
  \E c \in Clients :
    \/ \E sid \in MainSessions, word \in WordInputs : AddWordBegin(c, sid, word)
    \/ TxnCommit(c)
    \/ TxnRetry(c)
    \/ \E sid \in MainSessions : ResetStory(c, sid)

SpecRace == InitWith(RaceDocs) /\ [][NextRace]_vars

\* normalizePlayers on its own: the inputs are every list of at most
\* MaxPlayers raw players and every index around the list's range.
RawPlayers ==
  PlayerInputs \cup {[id |-> "u1", name |-> Amy], [id |-> "", name |-> Amy]}

RawPlayerLists == UNION {[1..n -> RawPlayers] : n \in 0..MaxPlayers}

RawIndexes == (0 - 2)..MaxPlayers

InitNorm ==
  /\ store = [sid \in Sessions |-> Absent]
  /\ clock = 0
  /\ call = [c \in Clients |-> Idle]
  /\ \E players \in RawPlayerLists, activeIndex \in RawIndexes :
       last = [op |-> "input",
               raw |-> [players |-> players, activeIndex |-> activeIndex]]
  /\ joined = [sid \in Sessions |-> {}]
  /\ run = [sid \in Sessions |-> NoRun]
  /\ stale = [sid \in Sessions |-> FALSE]
  /\ sub = [c \in Clients |-> Off]
  /\ list = NoList

\* normalizePlayers(players, activeIndex) on the raw input
Normalize ==
  /\ last.op = "input"
  /\ last' = [op |-> "normalize",
              raw |-> last.raw,
              out |-> normalizePlayers(last.raw.players, last.raw.activeIndex)]
  /\ UNCHANGED <<store, clock, call, joined, run, stale, sub, list>>

\* normalizePlayers on what normalizePlayers returned
NormalizeAgain ==
  /\ last.op = "normalize"
  /\ last' = [op |-> "normalizeAgain",
              raw |-> last.raw,
              first |-> last.out,
              out |-> normalizePlayers(last.out.players, last.out.activeIndex)]
  /\ UNCHANGED <<store, clock, call, joined, run, stale, sub, list>>

NextNorm == Normalize \/ NormalizeAgain

SpecNorm == InitNorm /\ [][NextNorm]_vars

\* Seeds without players
PlainSeeds == {seed \in Seeds : "players" \in DOMAIN seed /\ seed.players = <<>>}

\* The client that shows the story screen or listens to the session
Watchers == {"c1"}

\* One client with a story screen or a listener on the session, the other
\* running the operations.
NextSub ==
  \/ \E c \in Watchers, sid \in MainSessions : ScreenMount(c, sid)
  \/ \E c \in Watchers : ScreenResume(c)
  \/ \E c \in Watchers : ScreenUnmount(c)
  \/ \E c \in Watchers, sid \in MainSessions : Subscribe(c, sid)
  \/ \E c \in Watchers : Deliver(c)
  \/ \E c \in Clients :
       \/ EnsureWrite(c)
       \/ TxnCommit(c)
       \/ TxnRetry(c)
  \/ \E c \in Clients \ Watchers :
       \/ \E sid \in MainSessions, seed \in Seeds : EnsureBegin(c, sid, seed)
       \/ \E sid \in MainSessions, player \in PlayerInputs : AddPlayerBegin(c, sid, player)
       \/ \E sid \in MainSessions, word \in WordInputs : AddWordBegin(c, sid, word)
       \/ \E sid \in MainSessions : ResetStory(c, sid)

SpecSub == Init /\ [][NextSub]_vars

\* What the other client adds while the listener is followed to the end
WatchedPlayers == {[id |-> "u2", name |-> Bob], [id |-> "u2", name |-> Blank]}

\* The same with fewer inputs: a screen or a listener of one client, the
\* other adding, renaming and blanking one player and resetting the story.
NextLive ==
  \/ \E c \in Watchers, sid \in MainSessions : ScreenMount(c, sid)
  \/ \E c \in Watchers : ScreenResume(c)
  \/ \E c \in Watchers : ScreenUnmount(c)
  \/ \E c \in Watchers, sid \in MainSessions : Subscribe(c, sid)
  \/ \E c \in Watchers : Deliver(c)
  \/ \E c \in Clients :
       \/ EnsureWrite(c)
       \/ TxnCommit(c)
       \/ TxnRetry(c)
  \/ \E c \in Clients \ Watchers :
       \/ \E sid \in MainSessions, player \in WatchedPlayers : AddPlayerBegin(c, sid, player)
       \/ \E sid \in MainSessions : ResetStory(c, sid)

\* The store delivers every snapshot it has sent to a registered listener.
SpecLive == Init /\ [][NextLive]_vars /\ \A c \in Watchers : WF_vars(Deliver(c))

\* Two clients on one session that is never seeded with players.
NextPlain ==
  \E c \in Clients :
    \/ \E sid \in MainSessions, seed \in PlainSeeds : EnsureBegin(c, sid, seed)
    \/ EnsureWrite(c)
    \/ \E sid \in MainSessions, player \in PlayerInputs : AddPlayerBegin(c, sid, player)
    \/ \E sid \in MainSessions, word \in WordInputs : AddWordBegin(c, sid, word)
    \/ TxnCommit(c)
    \/ TxnRetry(c)
    \/ \E sid \in MainSessions : ResetStory(c, sid)

SpecPlain == Init /\ [][NextPlain]_vars

\* The earlier lib/story-session, which knows no playerIds: what its
\* ensureSessionExists and its addPlayerToSession write
LegacyEnsureDoc(seed, ts) == Merge(Merge(emptySession, seed), [updatedAt |-> ts])

LegacyAddPlayerFields(data, player, ts) ==
  LET norm == normalizePlayers(NextPlayers(FieldOr(data, "players", <<>>), player),
                               FieldOr(data, "activePlayerIndex", 0))
  IN Merge(data, [players |-> norm.players,
                  activePlayerIndex |-> norm.activeIndex,
                  updatedAt |-> ts])

\* A session document that the earlier module left behind
LegacyDocs ==
  {SetDoc(Absent, LegacyAddPlayerFields(LegacyEnsureDoc(emptySession, 0), player, 0)) :
     player \in {[id |-> "u1", name |-> AmyRaw]}}

\* The second session may be one the earlier module left behind.
InitList ==
  /\ \E d \in {Absent} \cup LegacyDocs :
       /\ store = [sid \in Sessions |-> IF sid \in MainSessions THEN Absent ELSE d]
       /\ run = [sid \in Sessions |->
                   IF sid \in MainSessions THEN NoRun ELSE [base |-> d, added |-> <<>>]]
  /\ clock = 0
  /\ call = [c \in Clients |-> Idle]
  /\ last = [op |-> "none"]
  /\ joined = [sid \in Sessions |-> {}]
  /\ stale = [sid \in Sessions |-> FALSE]
  /\ sub = [c \in Clients |-> Off]
  /\ list = NoList

ListClients == {"c1"}

\* One client on every session of the collection.
NextList ==
  \E c \in ListClients, sid \in Sessions :
    \/ \E seed \in Seeds : EnsureBegin(c, sid, seed)
    \/ EnsureWrite(c)
    \/ \E player \in PlayerInputs : AddPlayerBegin(c, sid, player)
    \/ \E word \in WordInputs : AddWordBegin(c, sid, word)
    \/ TxnCommit(c)
    \/ ResetStory(c, sid)

SpecList == InitList /\ [][NextList]_vars

\* Two clients, every operation, on a session that the story screen creates
\* or has created and two users have joined.
JoinedDocs == {Absent, JoinedDoc}

SpecJoined == InitWith(JoinedDocs) /\ [][NextPlain]_vars

\* Words of every kind: plain, padded, blank, two tokens
TwoTokens == <<"a", SP, "b">>

AnyWords == WordInputs \cup {Blank, TwoTokens}

\* Two users, each on a story screen that listens to the joined session:
\* words are added through the screen only.
NextTurn ==
  \E c \in Clients :
    \/ \E sid \in MainSessions : Subscribe(c, sid)
    \/ Deliver(c)
    \/ \E input \in AnyWords : ScreenAddWord(c, input)
    \/ TxnCommit(c)
    \/ TxnRetry(c)
    \/ \E sid \in MainSessions : ResetStory(c, sid)

SpecTurn == InitWith({JoinedDoc}) /\ [][NextTurn]_vars

\* The My Stories screen over two sessions, while stories are reset.
InitStories ==
  /\ \E d \in {Absent} \cup LegacyDocs :
       /\ store = [sid \in Sessions |-> IF sid \in MainSessions THEN JoinedDoc ELSE d]
       /\ run = [sid \in Sessions |-> [base |-> store[sid], added |-> <<>>]]
  /\ clock = 0
  /\ call = [c \in Clients |-> Idle]
  /\ last = [op |-> "none"]
  /\ joined = [sid \in Sessions |-> {}]
  /\ stale = [sid \in Sessions |-> FALSE]
  /\ sub = [c \in Clients |-> Off]
  /\ list = NoList

NextStories ==
  \/ \E u \in UserIds \cup {NoUser} : AuthChange(u)
  \/ PressRefresh
  \/ \E u \in UserIds : RefreshDone(u)
  \/ \E c \in ListClients, sid \in Sessions : ResetStory(c, sid)

SpecStories == InitStories /\ [][NextStories]_vars

\* One client, one operation after the other, on a session that is absent,
\* seeded or already joined; players and words of every kind.
SoloDocs == StartDocs \cup {JoinedDoc, ToldDoc}

AnyPlayers == PlayerInputs \cup {[id |-> "", name |-> Amy]}

NextSolo ==
  \E c \in ListClients :
    \/ \E sid \in MainSessions, seed \in Seeds : EnsureBegin(c, sid, seed)
    \/ EnsureWrite(c)
    \/ \E sid \in MainSessions, player \in AnyPlayers : AddPlayerBegin(c, sid, player)
    \/ \E sid \in MainSessions, word \in AnyWords : AddWordBegin(c, sid, word)
    \/ TxnCommit(c)
    \/ TxnRetry(c)
    \/ \E sid \in MainSessions : ResetStory(c, sid)

SpecSolo == InitWith(SoloDocs) /\ [][NextSolo]_vars

----------------------------------------------------------------------------
(* Reading the stored documents *)

\* The fields of a stored document, as the code reads them (`?? []`, `?? 0`)
StoredPlayers(doc) == FieldOr(SnapData(doc), "players", <<>>)
StoredWords(doc) == FieldOr(SnapData(doc), "storyWords", <<>>)
StoredIndex(doc) == FieldOr(SnapData(doc), "activePlayerIndex", 0)
StoredPlayerIds(doc) == FieldOr(SnapData(doc), "playerIds", <<>>)

PlayerIdSet(players) == {p.id : p \in Range(players)}

\* The document the last operation left
Now == store[last.sid]

----------------------------------------------------------------------------
(* Claims *)

\* C1: a committed add-word on a session with N > 0 normalized players and
\* clamped turn index i stores the turn index (i + 1) mod N, the index of the
\* next player in list order; with no players it stores 0.
C1_TurnPassesToNext ==
  last.op = "addWord" =>
    LET norm == NormOf(SnapData(last.pre))
        n == Len(norm.players)
    IN IF n > 0
       THEN StoredIndex(Now) = (norm.activeIndex + 1) % n
       ELSE StoredIndex(Now) = 0

\* C2: a committed add-player with a non-empty id and a non-blank name appends
\* the player at the end when its id is new, and otherwise replaces the name
\* at the index the id has; every other player keeps its entry and position.
C2_AppendOrRenameInPlace ==
  (last.op = "addPlayer" /\ PlayerValid(last.arg)) =>
    LET old == StoredPlayers(last.pre)
        new == StoredPlayers(Now)
        k == FindPlayerIndex(old, last.arg.id)
        entry == [id |-> last.arg.id, name |-> Trim(last.arg.name)]
    IN IF k < 0
       THEN new = Append(old, entry)
       ELSE new = [old EXCEPT ![k + 1] = entry]

\* C3: in every stored session document, playerIds lists exactly the ids of
\* the players (the empty id, which is never listed, aside).
C3_PlayerIdsArePlayerIds ==
  \A sid \in Sessions :
    store[sid].exists =>
      Range(StoredPlayerIds(store[sid])) = PlayerIdSet(StoredPlayers(store[sid])) \ {""}

\* C4: when an ensure-exists completes its write, every player a committed
\* add-player added and every word a committed add-word appended is still in
\* the stored document.
C4_EnsureKeepsCommitted ==
  last.op = "ensureWrite" =>
    /\ joined[last.sid] \subseteq PlayerIdSet(StoredPlayers(Now))
    /\ Range(last.added) \subseteq Range(StoredWords(Now))

\* C5: every player that a committed add-player added is in players, whatever
\* the interleaving of the transactions' reads and commits.
C5_AddedPlayersPresent ==
  \A sid \in Sessions : joined[sid] \subseteq PlayerIdSet(StoredPlayers(store[sid]))

\* C5 witness: an add-player that was retried after a conflict has committed
\* and both players are there.
C5_Witness ==
  /\ last.op = "addPlayer"
  /\ last.retried
  /\ "addPlayer" \notin {call[c].op : c \in Clients}
  /\ joined["s1"] = {"u1", "u2"}
  /\ {"u1", "u2"} \subseteq PlayerIdSet(StoredPlayers(store["s1"]))

\* C6: after k add-words have committed on a session with N > 0 players and
\* no other write, storyWords is the words before followed by the k words in
\* commit order, and the turn index is k further, modulo N.
C6_WordsAndTurnsAdvance ==
  \A sid \in Sessions :
    LET base == run[sid].base
        norm == NormOf(SnapData(base))
        n == Len(norm.players)
        k == Len(run[sid].added)
    IN (n > 0 /\ k > 0) =>
         /\ StoredWords(store[sid]) = StoredWords(base) \o run[sid].added
         /\ StoredIndex(store[sid]) = (norm.activeIndex + k) % n

\* C7: the normalized view of every stored document has a turn index that is
\* an index into its players, and 0 when it has no players.
C7_ViewIndexInRange ==
  \A sid \in Sessions :
    store[sid].exists =>
      LET view == SessionView(store[sid].data)
          n == Len(view.players)
      IN /\ view.activePlayerIndex = formatSessionDoc(sid, store[sid].data).activePlayerIndex
         /\ IF n > 0
            THEN 0 <= view.activePlayerIndex /\ view.activePlayerIndex < n
            ELSE view.activePlayerIndex = 0

\* C8: reset-story leaves storyWords empty and the turn index 0, and the
\* players as they were.
C8_ResetClearsStoryOnly ==
  last.op = "reset" =>
    /\ Now.exists
    /\ StoredWords(Now) = <<>>
    /\ StoredIndex(Now) = 0
    /\ StoredPlayers(Now) = StoredPlayers(last.pre)
    /\ ("players" \in DOMAIN Now.data) = (last.pre.exists /\ "players" \in DOMAIN last.pre.data)

\* C8 witness: a story with words and two players, with the turn not at the
\* first player, has been reset.
C8_Witness ==
  /\ last.op = "reset"
  /\ Len(StoredPlayers(last.pre)) >= 2
  /\ StoredWords(last.pre) # <<>>
  /\ StoredIndex(last.pre) # 0

\* C9 as claimed: while a reset-story is the last write of a session whose
\* players include u, list-for-user(u) does not return the session; after a
\* later add-player or add-word it does.
C9_HiddenAfterReset ==
  \A sid \in Sessions, u \in UserIds :
    /\ (stale[sid] /\ u \in PlayerIdSet(NormOf(SnapData(store[sid])).players))
         => sid \notin SessionIdsForUser(store, u)
    /\ (last.op \in {"addPlayer", "addWord"} /\ last.sid = sid
          /\ u \in PlayerIdSet(NormOf(SnapData(store[sid])).players))
         => sid \in SessionIdsForUser(store, u)

\* C9 amended: while a reset-story is the last write of a session whose
\* players include u, the playerIds query does not match the session, and
\* list-for-user(u) returns it exactly when that query matches no session at
\* all; after a later add-player or add-word it is returned.
C9_HiddenBehindOtherSessions ==
  \A sid \in Sessions, u \in UserIds :
    /\ (stale[sid] /\ u \in PlayerIdSet(NormOf(SnapData(store[sid])).players))
         => /\ sid \notin IndexQuery(store, u)
            /\ (sid \in SessionIdsForUser(store, u)) = (IndexQuery(store, u) = {})
    /\ (last.op \in {"addPlayer", "addWord"} /\ last.sid = sid
          /\ u \in PlayerIdSet(NormOf(SnapData(store[sid])).players))
         => sid \in SessionIdsForUser(store, u)

\* C9 witness: u1 plays in both sessions, s1 was reset and list-for-user(u1)
\* returns s2 alone.
C9_Witness ==
  /\ stale["s1"]
  /\ "u1" \in PlayerIdSet(NormOf(SnapData(store["s1"])).players)
  /\ SessionIdsForUser(store, "u1") = {"s2"}

\* C10: ensure-exists on a document that exists leaves the store as it was,
\* whatever the seed, and a second ensure-exists after a first changes nothing.
C10_EnsureIdempotent ==
  /\ last.op = "ensureReturn" => (Now = last.pre /\ Now.exists)
  /\ \A sid \in MainSessions, seed1 \in Seeds, seed2 \in Seeds :
       LET once == EnsureRun(store[sid], seed1, clock + 1)
       IN /\ store[sid].exists => once = store[sid]
          /\ EnsureRun(once, seed2, clock + 2) = once

\* C10 witness: ensure-exists has returned from a session that has players.
C10_Witness ==
  /\ last.op = "ensureReturn"
  /\ last.pre.exists
  /\ StoredPlayers(last.pre) # <<>>

----------------------------------------------------------------------------
(* Claims, continued *)

HasDuplicateIds(ids) == \E i, j \in 1..Len(ids) : i # j /\ ids[i] = ids[j]

IsPrefix(a, b) == Len(a) <= Len(b) /\ SubSeq(b, 1, Len(a)) = a

\* C11: after every committed add-player or add-word the stored playerIds
\* lists every id of the stored players, each once, and no other id.
C11_PlayerIdsAfterCommit ==
  last.op \in {"addPlayer", "addWord"} =>
    /\ "playerIds" \in DOMAIN Now.data
    /\ Range(StoredPlayerIds(Now)) = PlayerIdSet(StoredPlayers(Now))
    /\ ~HasDuplicateIds(StoredPlayerIds(Now))

\* C11 witness: a transaction has committed on a session in which two players
\* have the same id.
C11_Witness ==
  /\ last.op \in {"addPlayer", "addWord"}
  /\ HasDuplicateIds(IdsOf(StoredPlayers(Now)))
  /\ StoredPlayerIds(Now) # <<>>

\* C12: a player that is at index k of a session's players is at index k
\* after every add-player, add-word and reset-story.
C12_PlayersStayInPlace ==
  last.op \in {"addPlayer", "addWord", "reset"} =>
    LET old == StoredPlayers(last.pre)
        new == StoredPlayers(Now)
    IN \A k \in 1..Len(old) : k <= Len(new) /\ new[k].id = old[k].id

\* C13: in a session that was created without seeded players no two players
\* have the same id, whatever the interleaving.
C13_NoDuplicatePlayers ==
  \A sid \in Sessions : ~HasDuplicateIds(IdsOf(StoredPlayers(store[sid])))

\* C13 witness: an add-player that was retried after a conflict has committed
\* for an id that the conflicting commit had added.
C13_Witness ==
  /\ last.op = "addPlayer"
  /\ last.retried
  /\ PlayerValid(last.arg)
  /\ FindPlayerIndex(StoredPlayers(last.pre), last.arg.id) >= 0
  /\ last.arg.id \in PlayerIdSet(StoredPlayers(Now))

\* C15: when the playerIds query for a user matches no session, list-for-user
\* returns exactly the stored sessions whose normalized players include the user.
C15_FallbackFindsByPlayers ==
  \A u \in UserIds :
    IndexQuery(store, u) = {} =>
      SessionIdsForUser(store, u) =
        {sid \in Sessions :
           /\ store[sid].exists
           /\ u \in PlayerIdSet(NormOf(store[sid].data).players)}

\* C15 witness: the query matches nothing, one session has no playerIds field
\* and is returned, another session exists and is not.
C15_Witness ==
  /\ IndexQuery(store, "u1") = {}
  /\ store["s1"].exists
  /\ store["s2"].exists
  /\ "playerIds" \notin DOMAIN store["s2"].data
  /\ SessionIdsForUser(store, "u1") = {"s2"}

\* C14: after an add-player with a valid player has committed, every listener
\* registered on the session sees the player's id in a view, unless it is
\* cancelled first.
C14_SubscriberSeesPlayer ==
  \A c \in Watchers, u \in UserIds :
    (/\ sub[c].listening
     /\ last.op = "addPlayer"
     /\ last.sid = sub[c].sid
     /\ PlayerValid(last.arg)
     /\ last.arg.id = u)
    ~> (\/ ~sub[c].listening
        \/ sub[c].view.called /\ u \in PlayerIdSet(sub[c].view.state.players))

\* C14 witness: the listener's callback has run on the document an add-player
\* committed, and the view shows the player that was not in the session before.
C14_Witness ==
  \E c \in Watchers :
    /\ sub[c].listening
    /\ last.op = "addPlayer"
    /\ PlayerValid(last.arg)
    /\ last.arg.id \notin PlayerIdSet(StoredPlayers(last.pre))
    /\ sub[c].got.op = "delivery"
    /\ sub[c].got.snap = Now
    /\ last.arg.id \in PlayerIdSet(sub[c].view.state.players)

\* C16: once a story screen is unmounted, before or after its ensure-exists
\* completed, it has no registered listener and no onChange of it has been
\* applied since.
C16_NoListenerAfterUnmount ==
  \A c \in Clients :
    (sub[c].phase # "off" /\ ~sub[c].isMounted) =>
      /\ ~sub[c].listening
      /\ sub[c].inbox = <<>>
      /\ ~sub[c].late

\* C16 witness: the screen was unmounted while ensure-exists was waiting for
\* its read, ensure-exists then created the session, and bootstrap went on.
C16_Witness ==
  \E c \in Watchers :
    /\ sub[c].phase = "skipped"
    /\ last.op = "ensureWrite"
    /\ store[sub[c].sid].exists

\* C17: onChange is called only for a snapshot of an existing document, with
\* the normalization of that document; for an absent one nothing is emitted.
C17_NoViewOfAbsent ==
  \A c \in Clients :
    /\ sub[c].got.called =>
         /\ sub[c].got.snap.exists
         /\ sub[c].view = [called |-> TRUE, state |-> SessionView(sub[c].got.snap.data)]
    /\ (sub[c].got.op = "delivery" /\ ~sub[c].got.snap.exists) => ~sub[c].got.called
    /\ sub[c].view.called => sub[c].got.op = "delivery"

\* C17 witness: the listener's callback ran on the snapshot of an absent
\* session and the screen has no view.
C17_Witness ==
  \E c \in Watchers :
    /\ sub[c].got.op = "delivery"
    /\ ~sub[c].got.snap.exists
    /\ sub[c].view = NoView

\* C18: normalization is idempotent: normalizing a normalized players list
\* and index returns them unchanged.
C18_NormalizeIdempotent ==
  last.op = "normalizeAgain" => last.out = last.first

\* C18 witness: the first normalization changed both the list and the index,
\* and the second has run.
C18_Witness ==
  /\ last.op = "normalizeAgain"
  /\ last.first.players # last.raw.players
  /\ last.first.players # <<>>
  /\ last.first.activeIndex # last.raw.activeIndex

\* C19: every stored session document is normalized: no player with an empty
\* id or a blank name, names trimmed, and the turn index an index into
\* players (0 when there are none).
C19_StoredIsNormalized ==
  \A sid \in Sessions :
    store[sid].exists =>
      LET players == StoredPlayers(store[sid])
          index == StoredIndex(store[sid])
      IN /\ \A i \in 1..Len(players) :
              PlayerValid(players[i]) /\ players[i].name = Trim(players[i].name)
         /\ IF players = <<>> THEN index = 0 ELSE 0 <= index /\ index < Len(players)

\* C20: after every operation other than reset-story the storyWords before
\* it is a prefix of the storyWords after it.
C20_WordsOnlyGrow ==
  last.op \in {"ensureReturn", "ensureWrite", "addPlayer", "addWord"} =>
    IsPrefix(StoredWords(last.pre), StoredWords(Now))

----------------------------------------------------------------------------
(* Claims, the last ten *)

\* C21: when a reset-story commits while an add-word is in flight, the
\* add-word that commits after it leaves the words and the turn of "reset,
\* then add-word" (the one trimmed word, the turn one past the first player);
\* a reset-story that commits last leaves no words and the turn 0.
C21_ResetAddWordSerial ==
  /\ (/\ last.op = "addWord"
      /\ last.afterReset
      /\ (last.retried \/ last.snap # last.pre)) =>
       LET n == Len(NormOf(SnapData(last.pre)).players)
       IN /\ StoredWords(Now) = <<Trim(last.arg)>>
          /\ StoredIndex(Now) = IF n = 0 THEN 0 ELSE 1 % n
  /\ last.op = "reset" => (StoredWords(Now) = <<>> /\ StoredIndex(Now) = 0)

\* C21 witness: an add-word that had read the story before a reset-story
\* committed has committed after it, on a session with two players.
C21_Witness ==
  /\ last.op = "addWord"
  /\ last.afterReset
  /\ last.retried
  /\ Len(StoredPlayers(Now)) = 2
  /\ StoredIndex(Now) = 1

IsBlank(name) == \A j \in 1..Len(name) : name[j] = SP

\* The positions of the players that normalization is to keep
Kept(players) ==
  {i \in 1..Len(players) : players[i].id # "" /\ ~IsBlank(players[i].name)}

\* C22: normalization removes exactly the players with an empty id or a
\* blank name, gives every other player its trimmed name, and keeps them in
\* their order.
C22_NormalizeFiltersTrimsKeepsOrder ==
  last.op = "normalize" =>
    LET raw == last.raw.players
        out == last.out.players
    IN /\ Len(out) = Cardinality(Kept(raw))
       /\ \A i \in Kept(raw) :
            out[Cardinality({j \in Kept(raw) : j <= i})] =
              [id |-> raw[i].id, name |-> Trim(raw[i].name)]

\* C22 witness: of three players the middle one was removed and the first
\* one's name was trimmed.
C22_Witness ==
  /\ last.op = "normalize"
  /\ Len(last.raw.players) = 3
  /\ Kept(last.raw.players) = {1, 3}
  /\ Len(last.out.players) = 2
  /\ last.out.players[1].name # last.raw.players[1].name

\* C23: add-word takes every word, blank and multi-token ones too: the
\* commit appends the one entry word.trim() to storyWords and moves the turn
\* to the next player (0 without players).
C23_AddWordTakesAnyWord ==
  last.op = "addWord" =>
    LET n == Len(NormOf(SnapData(last.pre)).players)
        i == StoredIndex(last.pre)
    IN /\ Now.exists
       /\ StoredWords(Now) = Append(StoredWords(last.pre), Trim(last.arg))
       /\ n = 0 => StoredIndex(Now) = 0
       /\ (0 <= i /\ i < n) => StoredIndex(Now) = (i + 1) % n

\* C23 witness: a whitespace-only word was committed on a session with
\* players and became one more entry.
C23_Witness ==
  /\ last.op = "addWord"
  /\ IsBlank(last.arg)
  /\ StoredPlayers(last.pre) # <<>>
  /\ Len(StoredWords(Now)) = Len(StoredWords(last.pre)) + 1
  /\ StoredIndex(Now) # StoredIndex(last.pre)

\* A document (or no document) whose players and turn index are normalized
NormalizedDoc(doc) ==
  LET players == StoredPlayers(doc)
      index == StoredIndex(doc)
  IN /\ \A i \in 1..Len(players) :
          PlayerValid(players[i]) /\ players[i].name = Trim(players[i].name)
     /\ IF players = <<>> THEN index = 0 ELSE 0 <= index /\ index < Len(players)

\* C24: an add-player with an empty id or a blank name, for an id that is
\* not in the session, leaves players, storyWords and activePlayerIndex as
\* they were.
C24_InvalidPlayerChangesNothing ==
  (/\ last.op = "addPlayer"
   /\ ~PlayerValid(last.arg)
   /\ last.arg.id \notin PlayerIdSet(StoredPlayers(last.pre))) =>
    /\ StoredPlayers(Now) = StoredPlayers(last.pre)
    /\ StoredWords(Now) = StoredWords(last.pre)
    /\ StoredIndex(Now) = StoredIndex(last.pre)

\* C28: an add-player with a valid player on a normalized session leaves
\* storyWords and activePlayerIndex as they were.
C28_JoinKeepsWordsAndTurn ==
  (/\ last.op = "addPlayer"
   /\ PlayerValid(last.arg)
   /\ NormalizedDoc(last.pre)) =>
    /\ StoredWords(Now) = StoredWords(last.pre)
    /\ StoredIndex(Now) = StoredIndex(last.pre)

\* C28 witness: a player of a session with a word and the turn at the second
\* player was renamed.
C28_Witness ==
  /\ last.op = "addPlayer"
  /\ PlayerValid(last.arg)
  /\ NormalizedDoc(last.pre)
  /\ StoredWords(last.pre) # <<>>
  /\ StoredIndex(last.pre) = 1
  /\ FindPlayerIndex(StoredPlayers(last.pre), last.arg.id) >= 0
  /\ StoredPlayers(Now) # StoredPlayers(last.pre)

\* C29: add-player and add-word on a session without a document create it
\* as they would change the empty session, and an ensure-exists that finds
\* a document leaves it as it is.
C29_TransactionsCreate ==
  /\ (last.op = "addPlayer" /\ ~last.pre.exists) =>
       /\ Now.exists
       /\ StoredPlayers(Now) = normalizePlayers(<<last.arg>>, 0).players
       /\ (PlayerValid(last.arg) /\ Trim(last.arg.name) = last.arg.name) =>
            StoredPlayers(Now) = <<last.arg>>
       /\ StoredWords(Now) = <<>>
       /\ StoredIndex(Now) = 0
  /\ (last.op = "addWord" /\ ~last.pre.exists) =>
       /\ Now.exists
       /\ StoredPlayers(Now) = <<>>
       /\ StoredWords(Now) = <<Trim(last.arg)>>
       /\ StoredIndex(Now) = 0
  /\ last.op = "ensureReturn" => Now = last.pre

\* C29 witness: ensure-exists has returned from a session that an add-word
\* created.
C29_Witness ==
  /\ last.op = "ensureReturn"
  /\ ~run[last.sid].base.exists
  /\ run[last.sid].added # <<>>
  /\ StoredWords(Now) = run[last.sid].added

\* C26: list-for-user returns every stored session that has a player with
\* the user's id.
C26_ListsEverySession ==
  \A u \in UserIds :
    {sid \in Sessions :
       store[sid].exists /\ u \in PlayerIdSet(NormOf(store[sid].data).players)}
      \subseteq SessionIdsForUser(store, u)

\* C27: in a session created with the default empty seed, an empty
\* storyWords goes with activePlayerIndex 0.
C27_EmptyStoryFirstPlayer ==
  \A sid \in Sessions :
    (store[sid].exists /\ StoredWords(store[sid]) = <<>>) =>
      StoredIndex(store[sid]) = 0

\* C27 witness: a reset-story has emptied a story whose turn was at the
\* second player.
C27_Witness ==
  /\ last.op = "reset"
  /\ StoredWords(last.pre) # <<>>
  /\ StoredIndex(last.pre) = 1
  /\ Len(StoredPlayers(Now)) = 2
  /\ StoredWords(Now) = <<>>

\* C25: every word added through a story screen is committed while the
\* stored document's active player is the user who submitted it.
C25_OnlyActivePlayerAdds ==
  (last.op = "addWord" /\ "by" \in DOMAIN last) =>
    LET norm == NormOf(SnapData(last.pre))
    IN /\ norm.players # <<>>
       /\ 0 <= norm.activeIndex
       /\ norm.activeIndex < Len(norm.players)
       /\ norm.players[norm.activeIndex + 1].id = last.by

====
